---------------------------- MODULE Spec2Model ----------------------------
(***************************************************************************)
(* Model of package kgeo (src/geodesic.go): the spheroid model built by   *)
(* NewGeodesic, its accessors A and F, the direct solver Direct and the    *)
(* sub-solver hybrid, with the series of Karney's method.                  *)
(*                                                                         *)
(* ARITHMETIC.  The program computes in float64.  The model computes in    *)
(* exact real arithmetic on the reals it can write down exactly:           *)
(*                                                                         *)
(*   - a rational is a pair <<n, d>> in lowest terms, d > 0;               *)
(*   - a monomial [q, p] is the real q * pi^p, p in -1..1: an angle in     *)
(*     radians is a rational multiple of pi (p = 1), a sine or a length in *)
(*     metres is a rational (p = 0), and a radius can be a rational        *)
(*     multiple of 1/pi (p = -1), so that a quarter of its circumference   *)
(*     is a rational;                                                      *)
(*   - a value [re, ep] is the real re + ep * eta, where eta = 2^-38 is    *)
(*     the program's near-polar offset (src/geodesic.go:78), carried to    *)
(*     first order: eta^2 < 2^-76 is below the resolution of float64, so   *)
(*     the program drops it as well.  Values are ordered first by re and   *)
(*     then by ep.                                                         *)
(*                                                                         *)
(* Sincos, Atan2, Hypot and Sqrt are exact on the quarter-turn grid (and  *)
(* to first order in eta around it) and undefined elsewhere; the inputs of *)
(* the model are the inputs on which every step of Direct stays on that    *)
(* grid.  Signed zeros, NaN and rounding are outside the model.  Lengths   *)
(* are counted in units of 10^LenExp metres so that 1e10 and 1e11 fit the    *)
(* model checker's integers.                                               *)
(***************************************************************************)
EXTENDS Integers, Sequences, FiniteSets, TLC

-----------------------------------------------------------------------------
(* Rationals *)

RECURSIVE Gcd(_, _)
Gcd(x, y) == IF y = 0 THEN x ELSE Gcd(y, x % y)

IAbs(x) == IF x < 0 THEN -x ELSE x

\* n/d in lowest terms with a positive denominator
Rat(n, d) ==
    LET Over(k, s) == <<s * (n \div k), s * (d \div k)>>
    IN  Over(Gcd(IAbs(n), IAbs(d)), IF d < 0 THEN -1 ELSE 1)

RZero == <<0, 1>>
ROne == <<1, 1>>

RNeg(x) == <<-x[1], x[2]>>

RAdd(x, y) ==
    IF x[1] = 0 THEN y
    ELSE IF y[1] = 0 THEN x
    ELSE LET Over(k) == Rat(x[1] * (y[2] \div k) + y[1] * (x[2] \div k),
                        (x[2] \div k) * y[2])
         IN  Over(Gcd(x[2], y[2]))

RSub(x, y) == RAdd(x, RNeg(y))

RMul(x, y) ==
    IF x[1] = 0 \/ y[1] = 0 THEN RZero
    ELSE LET Cross(k1, k2) == <<(x[1] \div k1) * (y[1] \div k2),
                             (x[2] \div k2) * (y[2] \div k1)>>
         IN  Cross(Gcd(IAbs(x[1]), y[2]), Gcd(IAbs(y[1]), x[2]))

RInv(x) == IF x[1] < 0 THEN <<-x[2], -x[1]>> ELSE <<x[2], x[1]>>

RDiv(x, y) == RMul(x, RInv(y))

RSign(x) == IF x[1] > 0 THEN 1 ELSE IF x[1] < 0 THEN -1 ELSE 0

\* x < y for non-negative rationals, by continued fractions (no products)
RECURSIVE RLtPos(_, _)
RLtPos(x, y) ==
    LET fx == x[1] \div x[2]
        fy == y[1] \div y[2]
        rx == x[1] % x[2]
        ry == y[1] % y[2]
    IN  IF fx # fy THEN fx < fy
        ELSE IF ry = 0 THEN FALSE
        ELSE IF rx = 0 THEN TRUE
        ELSE RLtPos(<<y[2], ry>>, <<x[2], rx>>)

RLt(x, y) ==
    IF RSign(x) # RSign(y) THEN RSign(x) < RSign(y)
    ELSE IF RSign(x) = 0 THEN FALSE
    ELSE RLtPos(IF RSign(x) > 0 THEN x ELSE RNeg(y),
                IF RSign(x) > 0 THEN y ELSE RNeg(x))

\* the rational square root of a rational square
ISqrt(n) == CHOOSE r \in 0..n : r * r = n

RSqrt(x) == <<ISqrt(x[1]), ISqrt(x[2])>>

-----------------------------------------------------------------------------
(* Monomials q * pi^p *)

Mono(q, p) == IF q[1] = 0 THEN [q |-> RZero, p |-> 0] ELSE [q |-> q, p |-> p]

MZero == [q |-> <<0, 1>>, p |-> 0]

MIsZero(x) == x.q[1] = 0

MNeg(x) == Mono(RNeg(x.q), x.p)

MMul(x, y) == Mono(RMul(x.q, y.q), x.p + y.p)

MDiv(x, y) == Mono(RDiv(x.q, y.q), x.p - y.p)

\* a sum of two monomials is a monomial when they have the same power of pi
\* (or one of them is 0); the model never adds any others
MAdd(x, y) ==
    IF MIsZero(x) THEN y
    ELSE IF MIsZero(y) THEN x
    ELSE CHOOSE m \in {Mono(RAdd(x.q, y.q), x.p)} : x.p = y.p

MSub(x, y) == MAdd(x, MNeg(y))

\* 355/113 stands for pi where a multiple of pi is compared with a rational;
\* no value of the model lies within 3e-7 (relative) of such a boundary
PiApprox == <<355, 113>>

\* the product of the integers x and y fits the model checker's integers
Fits(x, y) == y = 0 \/ IAbs(x) <= 2147483647 \div IAbs(y)

RFits(x, y) ==
    LET Cross(k1, k2) == /\ Fits(x[1] \div k1, y[1] \div k2)
                     /\ Fits(x[2] \div k2, y[2] \div k1)
    IN  Cross(Gcd(IAbs(x[1]), y[2]), Gcd(IAbs(y[1]), x[2]))

\* pi^d as a rational, d in -1..1
PiPow(d) == IF d = 1 THEN PiApprox ELSE IF d = -1 THEN RInv(PiApprox) ELSE ROne

MSign(x) == RSign(x.q)

\* x < y for positive monomials: x.q * pi^(x.p - y.p) < y.q, with the power
\* of pi moved to a side where the product fits, or compared with y.q / x.q
MLtPos(x, y) ==
    IF x.p = y.p THEN RLt(x.q, y.q)
    ELSE IF RFits(x.q, PiPow(x.p - y.p))
    THEN RLt(RMul(x.q, PiPow(x.p - y.p)), y.q)
    ELSE IF RFits(y.q, PiPow(y.p - x.p))
    THEN RLt(x.q, RMul(y.q, PiPow(y.p - x.p)))
    ELSE RLt(PiPow(x.p - y.p), RDiv(y.q, x.q))

MLt(x, y) ==
    IF MSign(x) # MSign(y) THEN MSign(x) < MSign(y)
    ELSE IF MSign(x) = 0 THEN FALSE
    ELSE MLtPos(IF MSign(x) > 0 THEN x ELSE MNeg(y),
                IF MSign(x) > 0 THEN y ELSE MNeg(x))

MSqrt(x) == CHOOSE m \in {Mono(RSqrt(x.q), x.p \div 2)} : x.p % 2 = 0

-----------------------------------------------------------------------------
(* Values re + ep * eta, to first order in eta *)

Val(re, ep) == [re |-> re, ep |-> ep]

\* the rational n/d, the angle (n/d) * pi, and the first-order value
Num(n, d) == Val(Mono(Rat(n, d), 0), MZero)

PiTimes(n, d) == Val(Mono(Rat(n, d), 1), MZero)

Zero == [re |-> MZero, ep |-> MZero]

One == [re |-> [q |-> <<1, 1>>, p |-> 0], ep |-> MZero]

IsZero(x) == MIsZero(x.re) /\ MIsZero(x.ep)

VNeg(x) == Val(MNeg(x.re), MNeg(x.ep))

VAdd(x, y) == Val(MAdd(x.re, y.re), MAdd(x.ep, y.ep))

VSub(x, y) == VAdd(x, VNeg(y))

VMul(x, y) ==
    IF IsZero(x) \/ IsZero(y) THEN Zero
    ELSE Val(MMul(x.re, y.re), MAdd(MMul(x.re, y.ep), MMul(x.ep, y.re)))

\* x / y, for y with a non-zero finite part
VDiv(x, y) ==
    IF IsZero(x) THEN Zero
    ELSE Val(MDiv(x.re, y.re),
             MSub(MDiv(x.ep, y.re),
                  MMul(MDiv(x.re, y.re), MDiv(y.ep, y.re))))

VSign(x) == IF MSign(x.re) # 0 THEN MSign(x.re) ELSE MSign(x.ep)

VLt(x, y) ==
    MLt(IF x.re = y.re THEN x.ep ELSE x.re, IF x.re = y.re THEN y.ep ELSE y.re)

VLe(x, y) == x = y \/ VLt(x, y)

VAbs(x) == IF VSign(x) < 0 THEN VNeg(x) ELSE x

\* math.Copysign(x, y) for x >= 0
Copysign(x, y) == IF VSign(y) < 0 THEN VNeg(x) ELSE x

-----------------------------------------------------------------------------
(* math.Sincos, math.Atan2, math.Hypot, math.Sqrt on the quarter-turn grid *)

\* the number of quarter turns in the finite part of the angle x
Quarter(x) == CHOOSE k \in {x.re.q[1] * (2 \div x.re.q[2])} :
                  MIsZero(x.re) \/ (x.re.p = 1 /\ x.re.q[2] \in {1, 2})

SinQ(k) == IF k % 4 = 1 THEN 1 ELSE IF k % 4 = 3 THEN -1 ELSE 0

CosQ(k) == IF k % 4 = 0 THEN 1 ELSE IF k % 4 = 2 THEN -1 ELSE 0

IntM(k) == Mono(<<k, 1>>, 0)

\* sin(x0 + x1 eta) = sin x0 + x1 cos x0 eta
Sin(x) == Val(IntM(SinQ(Quarter(x))), MMul(IntM(CosQ(Quarter(x))), x.ep))

\* cos(x0 + x1 eta) = cos x0 - x1 sin x0 eta
Cos(x) == Val(IntM(CosQ(Quarter(x))), MNeg(MMul(IntM(SinQ(Quarter(x))), x.ep)))

\* AxisAngle with the angle counted from 0 to 2 pi: 3/2 for the negative y axis
AxisAngleTurn(y, x, below) ==
    CHOOSE h \in {IF MSign(y) = 0
                  THEN (IF MSign(x) >= 0 THEN RZero
                    ELSE ROne)
                  ELSE (IF MSign(y) > 0 THEN <<1, 2>> ELSE <<3, 2>>)} :
        MSign(y) = 0 \/ MSign(x) = 0

\* atan2 of a point on an axis, in half turns: 0, 1/2, 1 or -1/2; the point
\* (0, 0) gives 0, and the negative x axis gives 1 (+pi), or -1 (-pi) when
\* the point lies below it (below is the sign of the next order of y)
AxisAngle(y, x, below) ==
    CHOOSE h \in {IF MSign(y) = 0
                  THEN (IF MSign(x) >= 0 THEN RZero
                    ELSE IF below THEN <<-1, 1>> ELSE ROne)
                  ELSE (IF MSign(y) > 0 THEN <<1, 2>> ELSE <<-1, 2>>)} :
        MSign(y) = 0 \/ MSign(x) = 0

\* atan2(y0 + y1 eta, x0 + x1 eta)
\*   = atan2(y0, x0) + (x0 y1 - y0 x1) / (x0^2 + y0^2) eta,
\* and atan2(y1, x1) when y0 = x0 = 0
Atan2(y, x) ==
    IF MIsZero(y.re) /\ MIsZero(x.re)
    THEN Val(Mono(AxisAngle(y.ep, x.ep, FALSE), 1), MZero)
    ELSE Val(Mono(AxisAngle(y.re, x.re, MSign(y.ep) < 0), 1),
             MDiv(MSub(MMul(x.re, y.ep), MMul(y.re, x.ep)),
                  MAdd(MMul(x.re, x.re), MMul(y.re, y.re))))

MHypot(x, y) == MSqrt(MAdd(MMul(x, x), MMul(y, y)))

\* hypot(x, y) = h0 + (x0 x1 + y0 y1) / h0 eta with h0 = hypot(x0, y0),
\* and hypot(x1, y1) eta when h0 = 0
Hypot(x, y) ==
    IF MIsZero(x.re) /\ MIsZero(y.re)
    THEN Val(MZero, MHypot(x.ep, y.ep))
    ELSE Val(MHypot(x.re, y.re),
             MDiv(MAdd(MMul(x.re, x.ep), MMul(y.re, y.ep)), MHypot(x.re, y.re)))

\* sqrt(x0 + x1 eta) = sqrt x0 + x1 / (2 sqrt x0) eta for x0 > 0; sqrt 0 = 0
Sqrt(x) ==
    IF IsZero(x) THEN Zero
    ELSE CHOOSE r \in {Val(MSqrt(x.re),
                       MDiv(x.ep, MMul(IntM(2), MSqrt(x.re))))} :
             MSign(x.re) > 0

\* sq -- square
sq(x) == VMul(x, x)

\* nnz -- no negative zero
nnz(x) == IF IsZero(x) THEN Zero ELSE x

-----------------------------------------------------------------------------
(* The series of geodseries30 *)

\* <<x, x^2, ..., x^k>>, each power x times the one before it
RECURSIVE Powers(_, _)
Powers(x, k) ==
    IF k = 1 THEN <<x>>
    ELSE CHOOSE r \in {Append(p, VMul(x, p[k - 1])) : p \in {Powers(x, k - 1)}} :
             TRUE

seriesA1(eps) ==
    LET c2 == Num(1, 4)
        c4 == Num(1, 64)
        c6 == Num(1, 256)
        c8 == Num(25, 16384)
        eps2 == VMul(eps, eps)
    IN  VDiv(VAdd(One, VMul(eps2, VAdd(c2, VMul(eps2, VAdd(c4, VMul(eps2,
            VAdd(c6, VMul(eps2, c8)))))))), VSub(One, eps))

seriesA2(eps) ==
    LET c2 == Num(3, 4)
        c4 == Num(7, 64)
        c6 == Num(11, 256)
        c8 == Num(375, 16384)
        eps2 == VMul(eps, eps)
    IN  VDiv(VSub(One, VMul(eps2, VAdd(c2, VMul(eps2, VAdd(c4, VMul(eps2,
            VAdd(c6, VMul(eps2, c8)))))))), VAdd(One, eps))

seriesA3(n, eps) ==
    LET c1 == VSub(Num(1, 2), VMul(Num(1, 2), n))
        c2 == VAdd(Num(1, 4), VMul(n, VAdd(Num(1, 8), VMul(n, Num(-3, 8)))))
        c3 == VAdd(Num(1, 16), VMul(n, VAdd(Num(3, 16), VMul(n,
                  VAdd(Num(1, 16), VMul(n, Num(-5, 16)))))))
        c4 == VAdd(Num(3, 64), VMul(n, VAdd(Num(1, 32), VMul(n,
                  VAdd(Num(5, 32), VMul(n, VAdd(Num(5, 128), VMul(n,
                  Num(-35, 128)))))))))
        c5 == VAdd(Num(3, 128), VMul(n, VAdd(Num(5, 128), VMul(n,
                  VAdd(Num(5, 256), VMul(n, VAdd(Num(35, 256), VMul(n,
                  Num(7, 256)))))))))
        c6 == VAdd(Num(5, 256), VMul(n, VAdd(Num(15, 1024), VMul(n,
                  VAdd(Num(35, 1024), VMul(n, VAdd(Num(7, 512), VMul(n,
                  Num(63, 512)))))))))
        c7 == VAdd(Num(25, 2048), VMul(n, VAdd(Num(35, 2048), VMul(n,
                  VAdd(Num(21, 2048), VMul(n, VAdd(Num(63, 2048), VMul(n,
                  Num(21, 2048)))))))))
        c8 == VAdd(Num(175, 16384), VMul(n, VAdd(Num(35, 4096), VMul(n,
                  VAdd(Num(63, 4096), VMul(n, VAdd(Num(63, 8192), VMul(n,
                  Num(231, 8192)))))))))
    IN  VSub(One, VMul(eps, VAdd(c1, VMul(eps, VAdd(c2, VMul(eps, VAdd(c3,
            VMul(eps, VAdd(c4, VMul(eps, VAdd(c5, VMul(eps, VAdd(c6,
            VMul(eps, VAdd(c7, VMul(eps, c8))))))))))))))))

\* seriesC1 with the factor eps of C1[0] left out
seriesC1Dropped(eps) ==
    \* p[k] is eps^k
    LET At(p) ==
            <<VAdd(Num(-1, 2), VMul(p[2], VAdd(Num(3, 16),
                  VMul(p[2], VAdd(Num(-1, 32), VMul(p[2], Num(19, 2048))))))),
              VMul(p[2], VAdd(Num(-1, 16), VMul(p[2], VAdd(Num(1, 32),
                  VMul(p[2], VAdd(Num(-9, 2048), VMul(p[2],
                  Num(7, 4096)))))))),
              VMul(p[3], VAdd(Num(-1, 48), VMul(p[2], VAdd(Num(3, 256),
                  VMul(p[2], Num(-3, 2048)))))),
              VMul(p[4], VAdd(Num(-5, 512), VMul(p[2], VAdd(Num(3, 512),
                  VMul(p[2], Num(-11, 16384)))))),
              VMul(p[5], VAdd(Num(-7, 1280), VMul(p[2], Num(7, 2048)))),
              VMul(p[6], VAdd(Num(-7, 2048), VMul(p[2], Num(9, 4096)))),
              VMul(p[7], Num(-33, 14336)),
              VMul(p[8], Num(-429, 262144))>>
    IN  At(Powers(eps, 8))

seriesC1(eps) ==
    \* p[k] is eps^k
    LET At(p) ==
            <<VMul(p[1], VAdd(Num(-1, 2), VMul(p[2], VAdd(Num(3, 16),
                  VMul(p[2], VAdd(Num(-1, 32), VMul(p[2], Num(19, 2048)))))))),
              VMul(p[2], VAdd(Num(-1, 16), VMul(p[2], VAdd(Num(1, 32),
                  VMul(p[2], VAdd(Num(-9, 2048), VMul(p[2],
                  Num(7, 4096)))))))),
              VMul(p[3], VAdd(Num(-1, 48), VMul(p[2], VAdd(Num(3, 256),
                  VMul(p[2], Num(-3, 2048)))))),
              VMul(p[4], VAdd(Num(-5, 512), VMul(p[2], VAdd(Num(3, 512),
                  VMul(p[2], Num(-11, 16384)))))),
              VMul(p[5], VAdd(Num(-7, 1280), VMul(p[2], Num(7, 2048)))),
              VMul(p[6], VAdd(Num(-7, 2048), VMul(p[2], Num(9, 4096)))),
              VMul(p[7], Num(-33, 14336)),
              VMul(p[8], Num(-429, 262144))>>
    IN  At(Powers(eps, 8))

seriesC1p(eps) ==
    \* p[k] is eps^k
    LET At(p) ==
            <<VMul(p[1], VAdd(Num(1, 2), VMul(p[2], VAdd(Num(-9, 32),
                  VMul(p[2], VAdd(Num(205, 1536), VMul(p[2],
                  Num(-4879, 73728)))))))),
              VMul(p[2], VAdd(Num(5, 16), VMul(p[2], VAdd(Num(-37, 96),
                  VMul(p[2], VAdd(Num(1335, 4096), VMul(p[2],
                  Num(-86171, 368640)))))))),
              VMul(p[3], VAdd(Num(29, 96), VMul(p[2], VAdd(Num(-75, 128),
                  VMul(p[2], Num(2901, 4096)))))),
              VMul(p[4], VAdd(Num(539, 1536), VMul(p[2],
                  VAdd(Num(-2391, 2560), VMul(p[2], Num(1082857, 737280)))))),
              VMul(p[5], VAdd(Num(3467, 7680), VMul(p[2],
                  Num(-28223, 18432)))),
              VMul(p[6], VAdd(Num(38081, 61440), VMul(p[2],
                  Num(-733437, 286720)))),
              VMul(p[7], Num(459485, 516096)),
              VMul(p[8], Num(109167851, 82575360))>>
    IN  At(Powers(eps, 8))

seriesC2(eps) ==
    \* p[k] is eps^k
    LET At(p) ==
            <<VMul(p[1], VAdd(Num(1, 2), VMul(p[2], VAdd(Num(1, 16), VMul(p[2],
                  VAdd(Num(1, 32), VMul(p[2], Num(41, 2048)))))))),
              VMul(p[2], VAdd(Num(3, 16), VMul(p[2], VAdd(Num(1, 32),
                  VMul(p[2], VAdd(Num(35, 2048), VMul(p[2],
                  Num(47, 4096)))))))),
              VMul(p[3], VAdd(Num(5, 48), VMul(p[2], VAdd(Num(5, 256),
                  VMul(p[2], Num(23, 2048)))))),
              VMul(p[4], VAdd(Num(35, 512), VMul(p[2], VAdd(Num(7, 512),
                  VMul(p[2], Num(133, 16384)))))),
              VMul(p[5], VAdd(Num(63, 1280), VMul(p[2], Num(21, 2048)))),
              VMul(p[6], VAdd(Num(77, 2048), VMul(p[2], Num(33, 4096)))),
              VMul(p[7], Num(429, 14336)),
              VMul(p[8], Num(6435, 262144))>>
    IN  At(Powers(eps, 8))


\* backward recurrence b[k] = C[k] + ar * b[k+1] - b[k+2], down to b[1]
RECURSIVE Clenshaw(_, _, _, _, _)
Clenshaw(C, k, ar, b1, b2) ==
    IF k = 0 THEN b1
    ELSE CHOOSE r \in {Clenshaw(C, k - 1, ar, b0, b1) :
                   b0 \in {VAdd(VSub(VMul(ar, b1), b2), C[k])}} : TRUE

\* sumSin(sig, C) = SUM C[i] * sin((2i+2) * sig), i = 0..7 (C[1..8] here):
\* with ar = 2 cos(2 sig) the sum is sin(2 sig) * b[1]
sumSin(sig, C) ==
    LET sinx == Sin(sig)
        cosx == Cos(sig)
        ar == VMul(VMul(Num(2, 1), VSub(cosx, sinx)), VAdd(cosx, sinx))
    IN  VMul(VMul(VMul(Num(2, 1), sinx), cosx),
             Clenshaw(C, Len(C), ar, Zero, Zero))

\* the coefficient tables of the A3 and C3 series depend on n alone
newCoeffA3(n) == [n |-> n]

newCoeffC3(n) == [n |-> n]

\* g.cA3.seriesA3(eps)
coeffA3seriesA3(cA3, eps) == seriesA3(cA3.n, eps)

\* g.cC3.seriesC3(eps): C3[l] = eps^l * (a polynomial in n and eps), of which
\* the model keeps the lowest order
coeffC3seriesC3(cC3, eps) ==
    \* p[k] is eps^k
    LET n == cC3.n
        At(p) ==
            <<VMul(p[1], VSub(Num(1, 4), VMul(Num(1, 4), n))),
              VMul(p[2], VSub(Num(1, 16), VMul(Num(3, 32), n))),
              VMul(p[3], VSub(Num(5, 192), VMul(Num(3, 64), n))),
              VMul(p[4], VSub(Num(7, 512), VMul(Num(7, 256), n))),
              VMul(p[5], Num(21, 2560)),
              VMul(p[6], Num(11, 2048)),
              VMul(p[7], Num(429, 114688)),
              VMul(p[8], Num(715, 262144))>>
    IN  At(Powers(eps, 8))

-----------------------------------------------------------------------------
(* Units and the limits of the program *)

\* lengths are counted in units of 10^LenExp metres
LenExp == 3

RECURSIVE Pow10(_)
Pow10(k) == IF k = 0 THEN 1 ELSE 10 * Pow10(k - 1)

\* the length m * 10^k metres
Metres(m, k) ==
    IF k >= LenExp THEN Num(m * Pow10(k - LenExp), 1)
    ELSE Num(m, Pow10(LenExp - k))

\* math.Pi / 180 and 180 / math.Pi
RadPerDeg == PiTimes(1, 180)

DegPerRad == Val(Mono(<<180, 1>>, -1), MZero)

Deg(d) == Num(d, 1)

\* the near-polar offset 1.0 / (1 << 38), and the latitude 90 * (1 - eta)
Eta == Val(MZero, IntM(1))

PolarLat == VMul(Deg(90), VSub(One, Eta))

\* 1.0 / (1 << 26): at or below it the flattening counts as 0
FTiny == Num(1, 67108864)

FMax == Num(1, 150)

AMin == Metres(1, 0)

AMax == Metres(1, 10)

S12Max == Metres(1, 11)

-----------------------------------------------------------------------------
(* NewGeodesic, A, F *)

NoModel == [made |-> FALSE]

\* KeptF with the threshold 1.0 / (1 << 6)
KeptFWide(f) == IF VLe(f, Num(1, 64)) THEN Zero ELSE f

\* the flattening NewGeodesic keeps
KeptF(f) == IF VLe(f, FTiny) THEN Zero ELSE f

\* NewGeodesicCheck with a < 1e10 for a <= 1e10
NewGeodesicCheckOpen(a, f) ==
    IF ~(VLe(AMin, a) /\ VLt(a, AMax))
    THEN "kgeo.NewGeodesic: invalid argument a"
    ELSE IF ~(VLe(Zero, f) /\ VLe(f, FMax))
    THEN "kgeo.NewGeodesic: invalid argument f"
    ELSE ""

NewGeodesicCheck(a, f) ==
    IF ~(VLe(AMin, a) /\ VLe(a, AMax))
    THEN "kgeo.NewGeodesic: invalid argument a"
    ELSE IF ~(VLe(Zero, f) /\ VLe(f, FMax))
    THEN "kgeo.NewGeodesic: invalid argument f"
    ELSE ""

\* the Geodesic built from a and the kept flattening f
MakeGeodesic(a, f) ==
    LET n == VDiv(f, VSub(Num(2, 1), f))
    IN  [made |-> TRUE,
         a |-> a,
         b |-> VMul(a, VSub(One, f)),
         f |-> f,
         n |-> n,
         e2 |-> VMul(f, VSub(Num(2, 1), f)),
         ep2 |-> VDiv(VMul(f, VSub(Num(2, 1), f)),
                  VMul(VSub(One, f), VSub(One, f))),
         cA3 |-> newCoeffA3(n),
         cC3 |-> newCoeffC3(n)]

GeodesicA(gg) == gg.a

GeodesicF(gg) == gg.f

-----------------------------------------------------------------------------
(* Direct *)

\* DirectCheck with s12 < 1e11 for s12 <= 1e11
DirectCheckOpen(lat1, lon1, azi1, s12) ==
    IF ~(VLe(Deg(-90), lat1) /\ VLe(lat1, Deg(90)))
    THEN "kgeo.Geodesic.Direct: invalid argument lat1"
    ELSE IF ~(VLe(Deg(-180), lon1) /\ VLe(lon1, Deg(180)))
    THEN "kgeo.Geodesic.Direct: invalid argument lon1"
    ELSE IF ~(VLe(Deg(-180), azi1) /\ VLe(azi1, Deg(180)))
    THEN "kgeo.Geodesic.Direct: invalid argument azi1"
    ELSE IF ~(VLe(Zero, s12) /\ VLt(s12, S12Max))
    THEN "kgeo.Geodesic.Direct: invalid argument s12"
    ELSE ""

\* the panic message of the argument checks, "" when all four pass
DirectCheck(lat1, lon1, azi1, s12) ==
    IF ~(VLe(Deg(-90), lat1) /\ VLe(lat1, Deg(90)))
    THEN "kgeo.Geodesic.Direct: invalid argument lat1"
    ELSE IF ~(VLe(Deg(-180), lon1) /\ VLe(lon1, Deg(180)))
    THEN "kgeo.Geodesic.Direct: invalid argument lon1"
    ELSE IF ~(VLe(Deg(-180), azi1) /\ VLe(azi1, Deg(180)))
    THEN "kgeo.Geodesic.Direct: invalid argument azi1"
    ELSE IF ~(VLe(Zero, s12) /\ VLe(s12, S12Max))
    THEN "kgeo.Geodesic.Direct: invalid argument s12"
    ELSE ""

\* the locals of Direct once the arguments are checked
DirectEnter(lat1, lon1, azi1, s12) ==
    [lat1 |-> lat1, lon1 |-> lon1, azi1 |-> azi1, s12 |-> s12]

\* the statements of Direct after the checks, by their line in
\* src/geodesic.go, in the order they run
DirectLines ==
    <<79, 84, 85, 86, 88, 89, 90, 91, 93, 94, 95, 96, 97, 98, 99,
      102, 103, 104, 105, 106, 107, 108, 109, 110, 111, 112, 113,
      115, 116, 117, 118, 119, 121, 122, 123, 124, 125, 126, 127,
      129, 130, 131, 134, 137>>

\* the locals that the statement at the line assigns, computed from the
\* receiver gg and the locals L before it
DirectStmt(gg, L, line) ==
    CASE line = 79 ->  \* adjust near-polar latitudes
            [lat1 |-> IF VLt(PolarLat, VAbs(L.lat1))
                      THEN Copysign(PolarLat, L.lat1) ELSE L.lat1]
      [] line = 84 -> [b |-> gg.b]
      [] line = 85 -> [f |-> gg.f]
      [] line = 86 -> [ep2 |-> gg.ep2]
      [] line = 88 -> [phi1 |-> VMul(L.lat1, RadPerDeg)]
      [] line = 89 -> [sinphi1 |-> Sin(L.phi1), cosphi1 |-> Cos(L.phi1)]
      [] line = 90 -> [alp1 |-> VMul(L.azi1, RadPerDeg)]
      [] line = 91 -> [sinalp1 |-> Sin(L.alp1), cosalp1 |-> Cos(L.alp1)]
      \* solve triangle NEA
      [] line = 93 ->
            [bet1 |-> Atan2(VMul(VSub(One, L.f), L.sinphi1), L.cosphi1)]
      [] line = 94 -> [sinbet1 |-> Sin(L.bet1), cosbet1 |-> Cos(L.bet1)]
      [] line = 95 ->
            [alp0 |-> Atan2(VMul(L.sinalp1, L.cosbet1),
                            Hypot(L.cosalp1, VMul(L.sinalp1, L.sinbet1)))]
      [] line = 96 -> [sinalp0 |-> Sin(L.alp0), cosalp0 |-> Cos(L.alp0)]
      [] line = 97 -> [sig1 |-> Atan2(L.sinbet1, VMul(L.cosalp1, L.cosbet1))]
      [] line = 98 -> [sinsig1 |-> Sin(L.sig1), cossig1 |-> Cos(L.sig1)]
      [] line = 99 ->
            [omg1 |-> Atan2(VMul(L.sinalp0, L.sinsig1), L.cossig1)]
      \* determine sigma2
      [] line = 102 -> [k2 |-> VMul(VMul(L.ep2, L.cosalp0), L.cosalp0)]
      [] line = 103 -> [tt |-> Sqrt(VAdd(One, L.k2))]
      [] line = 104 -> [eps |-> VDiv(VSub(L.tt, One), VAdd(L.tt, One))]
      [] line = 105 -> [A1 |-> seriesA1(L.eps)]
      [] line = 106 -> [C1 |-> seriesC1(L.eps)]
      [] line = 107 ->
            [I1sig1 |-> VMul(L.A1, VAdd(L.sig1, sumSin(L.sig1, L.C1)))]
      [] line = 108 -> [s1 |-> VMul(L.b, L.I1sig1)]
      [] line = 109 -> [s2 |-> VAdd(L.s1, L.s12)]
      [] line = 110 -> [tau2 |-> VDiv(L.s2, VMul(L.b, L.A1))]
      [] line = 111 -> [C1p |-> seriesC1p(L.eps)]
      [] line = 112 -> [sig2 |-> VAdd(L.tau2, sumSin(L.tau2, L.C1p))]
      [] line = 113 -> [sinsig2 |-> Sin(L.sig2), cossig2 |-> Cos(L.sig2)]
      \* solve triangle NEB
      [] line = 115 -> [alp2 |-> Atan2(L.sinalp0, VMul(L.cosalp0, L.cossig2))]
      [] line = 116 ->
            [bet2 |-> Atan2(VMul(L.cosalp0, L.sinsig2),
                            Hypot(VMul(L.cosalp0, L.cossig2), L.sinalp0))]
      [] line = 117 -> [sinbet2 |-> Sin(L.bet2), cosbet2 |-> Cos(L.bet2)]
      [] line = 118 ->
            [omg2 |-> Atan2(VMul(L.sinalp0, L.sinsig2), L.cossig2)]
      [] line = 119 ->
            [phi2 |-> Atan2(L.sinbet2, VMul(VSub(One, L.f), L.cosbet2))]
      \* determine lambda12
      [] line = 121 -> [A3 |-> coeffA3seriesA3(gg.cA3, L.eps)]
      [] line = 122 -> [C3 |-> coeffC3seriesC3(gg.cC3, L.eps)]
      [] line = 123 ->
            [I3sig1 |-> VMul(L.A3, VAdd(L.sig1, sumSin(L.sig1, L.C3)))]
      [] line = 124 ->
            [I3sig2 |-> VMul(L.A3, VAdd(L.sig2, sumSin(L.sig2, L.C3)))]
      [] line = 125 ->
            [lam1 |-> VSub(L.omg1, VMul(VMul(L.f, L.sinalp0), L.I3sig1))]
      [] line = 126 ->
            [lam2 |-> VSub(L.omg2, VMul(VMul(L.f, L.sinalp0), L.I3sig2))]
      [] line = 127 -> [lam12 |-> VSub(L.lam2, L.lam1)]
      \* the destination in degrees
      [] line = 129 -> [lat2 |-> VMul(L.phi2, DegPerRad)]
      [] line = 130 -> [lon2 |-> VAdd(L.lon1, VMul(L.lam12, DegPerRad))]
      [] line = 131 ->
            [lon2 |-> IF VLt(L.lon2, Deg(-180))
                      THEN VAdd(L.lon2, Deg(360)) ELSE L.lon2]
      [] line = 134 ->
            [lon2 |-> IF VLt(Deg(180), L.lon2)
                      THEN VSub(L.lon2, Deg(360)) ELSE L.lon2]
      [] line = 137 -> [azi2 |-> VMul(L.alp2, DegPerRad)]

\* the locals after the statement at the line has run
DirectStep(gg, L, line) == DirectStmt(gg, L, line) @@ L

\* the locals at the return, from the locals L before statement i
RECURSIVE DirectRun(_, _, _)
DirectRun(gg, L, i) ==
    IF i > Len(DirectLines) THEN L
    ELSE CHOOSE r \in {DirectRun(gg, M, i + 1) :
                       M \in {DirectStep(gg, L, DirectLines[i])}} : TRUE

\* the Solution returned
DirectSolution(L) ==
    [Lat1 |-> nnz(L.lat1), Lon1 |-> nnz(L.lon1), Azi1 |-> nnz(L.azi1),
     Lat2 |-> nnz(L.lat2), Lon2 |-> nnz(L.lon2), Azi2 |-> nnz(L.azi2),
     S12 |-> nnz(L.s12)]

\* the outcome of a call whose locals at the return are L
DirectReturn(L) == [panic |-> "", sol |-> DirectSolution(L), loc |-> L]

\* Direct: a panic and no Solution, or a Solution (with the locals it was
\* computed from)
Direct(gg, lat1, lon1, azi1, s12) ==
    LET Checked(msg) ==
            IF msg # "" THEN [panic |-> msg]
            ELSE DirectReturn(DirectRun(gg, DirectEnter(lat1, lon1, azi1,
                                                        s12), 1))
    IN  Checked(DirectCheck(lat1, lon1, azi1, s12))

-----------------------------------------------------------------------------
(* hybrid *)

\* the parameters of hybrid as its first locals
HybridEnter(sinbet1, cosbet1, sinbet2, cosbet2, sinalp1, cosalp1) ==
    [sinbet1 |-> sinbet1, cosbet1 |-> cosbet1, sinbet2 |-> sinbet2,
     cosbet2 |-> cosbet2, sinalp1 |-> sinalp1, cosalp1 |-> cosalp1]

\* the statements of hybrid by their line in src/geodesic.go
HybridLines ==
    <<143, 144, 146, 147, 148, 150, 151, 152, 154, 155, 156, 157, 158, 159,
      160, 161, 162, 163>>

HybridStmt(gg, L, line) ==
    CASE line = 143 -> [b |-> gg.b]
      [] line = 144 -> [ep2 |-> gg.ep2]
      \* solve triangle NEA
      [] line = 146 ->
            [alp0 |-> Atan2(VMul(L.sinalp1, L.cosbet1),
                            Hypot(L.cosalp1, VMul(L.sinalp1, L.sinbet1)))]
      [] line = 147 -> [sinalp0 |-> Sin(L.alp0), cosalp0 |-> Cos(L.alp0)]
      [] line = 148 -> [sig1 |-> Atan2(L.sinbet1, VMul(L.cosalp1, L.cosbet1))]
      \* solve triangle NEB
      [] line = 150 ->
            [alp2 |-> Atan2(L.sinalp0,
                            Sqrt(VAdd(sq(VMul(L.cosalp1, L.cosbet1)),
                                      VMul(VSub(L.cosbet2, L.cosbet1),
                                           VAdd(L.cosbet2, L.cosbet1)))))]
      [] line = 151 -> [cosalp2 |-> Cos(L.alp2)]
      [] line = 152 -> [sig2 |-> Atan2(L.sinbet2, VMul(L.cosalp2, L.cosbet2))]
      \* determine s12
      [] line = 154 -> [k2 |-> VMul(VMul(L.ep2, L.cosalp0), L.cosalp0)]
      [] line = 155 -> [tt |-> Sqrt(VAdd(One, L.k2))]
      [] line = 156 -> [eps |-> VDiv(VSub(L.tt, One), VAdd(L.tt, One))]
      [] line = 157 -> [A1 |-> seriesA1(L.eps)]
      [] line = 158 -> [C1 |-> seriesC1(L.eps)]
      [] line = 159 ->
            [I1sig1 |-> VMul(L.A1, VAdd(L.sig1, sumSin(L.sig1, L.C1)))]
      [] line = 160 -> [s1 |-> VMul(L.b, L.I1sig1)]
      [] line = 161 ->
            [I1sig2 |-> VMul(L.A1, VAdd(L.sig2, sumSin(L.sig2, L.C1)))]
      [] line = 162 -> [s2 |-> VMul(L.b, L.I1sig2)]
      [] line = 163 -> [s12 |-> VSub(L.s2, L.s1)]

RECURSIVE HybridRun(_, _, _)
HybridRun(gg, L, i) ==
    IF i > Len(HybridLines) THEN L
    ELSE CHOOSE r \in {HybridRun(gg, M, i + 1) :
                       M \in {HybridStmt(gg, L, HybridLines[i]) @@ L}} : TRUE

\* return alp2, s12
HybridReturn(L) == [alp2 |-> L.alp2, s12 |-> L.s12]

hybrid(gg, sinbet1, cosbet1, sinbet2, cosbet2, sinalp1, cosalp1) ==
    HybridReturn(HybridRun(gg, HybridEnter(sinbet1, cosbet1, sinbet2, cosbet2,
                                           sinalp1, cosalp1), 1))

\* hybrid stays on the grid when the radicand of its square root is 0 or has
\* a positive finite part
HybridOnGrid(L) ==
    LET OnGridAt(rad) == IsZero(rad) \/ MSign(rad.re) > 0
    IN  OnGridAt(VAdd(sq(VMul(L.cosalp1, L.cosbet1)),
                      VMul(VSub(L.cosbet2, L.cosbet1),
                           VAdd(L.cosbet2, L.cosbet1))))

\* a call that leaves the flattening of its receiver reset
AfterCallReset(gg) == [gg EXCEPT !.f = Zero]

\* A, F, Direct and hybrid have value receivers and assign to no field of g:
\* the Geodesic after a call
AfterCall(gg) == gg

-----------------------------------------------------------------------------
(* The state *)

\* g: the Geodesic (NoModel until NewGeodesic has returned one);
\* given: the arguments NewGeodesic built g from;
\* ret: the outcome of the call that returned last, until the caller takes it
\*      (under SpecConc: one activation of a call per caller)
VARIABLES g, given, ret

vars == <<g, given, ret>>

\* no call has returned, or the caller has taken the outcome of the last one
Idle == [op |-> "idle"]

NotGiven == [a |-> Zero, f |-> Zero]

\* the arcs offered as s12 are whole quarter turns of the polar circle:
\* 0..MaxArc, the RimArc quarters and one more, and LongArc quarters
MaxArc == 3

RimArc == 8

LongArc == 1200

\* k quarter turns of the polar circle of gg (a quarter is (pi/2) * b)
Arc(gg, k) == VMul(Num(k, 2), VMul(PiTimes(1, 1), gg.b))

\* the radius of the sphere whose RimArc quarter turns are 1e11 metres long
RimA == Val(Mono(Rat(2 * Pow10(11 - LenExp), RimArc), -1), MZero)

AInputs == {VMul(Num(1, 2), AMin), AMin, RimA, AMax, VMul(Num(2, 1), AMax)}

FInputs == {Num(-1, 150), Zero, Num(1, 134217728), FTiny, FMax, Num(1, 149)}

LatInputs == {Deg(-91), Deg(-90), Zero, VSub(Deg(90), VMul(Deg(180), Eta)),
              VSub(Deg(90), VMul(Deg(45), Eta)), Deg(90), Deg(91)}

LonInputs == {Deg(-181), Deg(-180), Deg(100), Deg(180), Deg(181)}

AziInputs == {Deg(-181), Deg(-180), Zero, Deg(90), Deg(180), Deg(181)}

ArcInputs == {-1} \cup (0..MaxArc) \cup {RimArc, RimArc + 1, LongArc}

\* the arcs of gg whose length the integers of the model checker can hold
Arcs(gg) ==
    IF gg.made THEN {k \in ArcInputs : Fits(k, gg.b.re.q[1])} ELSE {}

\* the inputs on which every step of Direct stays on the quarter-turn grid:
\* any start on a sphere, and a start along the equator on a spheroid
OnGrid(gg, lat1, azi1) ==
    IsZero(gg.f) \/ (IsZero(lat1) /\ VAbs(azi1) = Deg(90))

Init ==
    /\ g = NoModel
    /\ given = NotGiven
    /\ ret = Idle

\* g := NewGeodesic(a, f): a panic leaves no Geodesic
NewGeodesic(a, f) ==
    /\ ~g.made
    /\ ret = Idle
    /\ IF NewGeodesicCheck(a, f) # ""
       THEN /\ g' = g
            /\ given' = given
            /\ ret' = [op |-> "NewGeodesic", a |-> a, f |-> f,
                   panic |-> NewGeodesicCheck(a, f)]
       ELSE /\ g' = MakeGeodesic(a, KeptF(f))
            /\ given' = [a |-> a, f |-> f]
            /\ ret' = [op |-> "NewGeodesic", a |-> a, f |-> f, panic |-> ""]

\* g.A()
A ==
    /\ g.made
    /\ ret = Idle
    /\ g' = AfterCall(g)
    /\ given' = given
    /\ ret' = [op |-> "A", val |-> GeodesicA(g)]

\* g.F()
F ==
    /\ g.made
    /\ ret = Idle
    /\ g' = AfterCall(g)
    /\ given' = given
    /\ ret' = [op |-> "F", val |-> GeodesicF(g)]

\* g.Direct(lat1, lon1, azi1, s12)
DirectCall(lat1, lon1, azi1, s12) ==
    /\ g.made
    /\ ret = Idle
    /\ DirectCheck(lat1, lon1, azi1, s12) = "" => OnGrid(g, lat1, azi1)
    /\ g' = AfterCall(g)
    /\ given' = given
    /\ ret' = [op |-> "Direct", lat1 |-> lat1, lon1 |-> lon1, azi1 |-> azi1,
               s12 |-> s12] @@ Direct(g, lat1, lon1, azi1, s12)

\* g.hybrid on the two ends of the geodesic that Direct has just returned
HybridCall ==
    /\ g.made
    /\ ret.op = "Direct"
    /\ ret.panic = ""
    /\ HybridOnGrid(ret.loc)
    /\ g' = AfterCall(g)
    /\ given' = given
    /\ ret' = [op |-> "hybrid", of |-> ret,
               out |-> hybrid(g, ret.loc.sinbet1, ret.loc.cosbet1,
                          ret.loc.sinbet2, ret.loc.cosbet2,
                          ret.loc.sinalp1, ret.loc.cosalp1)]

\* the caller takes the outcome
Resume ==
    /\ ret # Idle
    /\ g' = g
    /\ given' = given
    /\ ret' = Idle

Next ==
    \/ \E a \in AInputs, f \in FInputs : NewGeodesic(a, f)
    \/ A
    \/ F
    \/ \E lat1 \in LatInputs, lon1 \in LonInputs, azi1 \in AziInputs,
          k \in Arcs(g) : DirectCall(lat1, lon1, azi1, Arc(g, k))
    \/ HybridCall
    \/ Resume

Spec == Init /\ [][Next]_vars

-----------------------------------------------------------------------------
(* Concurrent callers of one shared Geodesic.  A call of Direct copies its  *)
(* receiver and then runs one statement at a time: pc is the place of the   *)
(* next one in DirectLines, and 0 once the call has returned.               *)

NCallers == 2

Callers == 1..NCallers

\* <<lat1, lon1, azi1, arcs>> of the calls the callers make
ConcInputs == {<<Zero, Deg(100), Deg(90), 1>>,
               <<Deg(91), Deg(100), Deg(90), 1>>}

InitConc ==
    /\ \E f \in {Zero, FMax} :
          /\ g = MakeGeodesic(AMin, KeptF(f))
          /\ given = [a |-> AMin, f |-> f]
    /\ ret = [c \in Callers |-> Idle]

\* the call: the receiver is copied, the arguments are checked
ConcCall(c, lat1, lon1, azi1, s12) ==
    /\ ret[c] = Idle
    /\ DirectCheck(lat1, lon1, azi1, s12) = "" => OnGrid(g, lat1, azi1)
    /\ g' = AfterCall(g)
    /\ given' = given
    /\ ret' = [ret EXCEPT ![c] =
                  [op |-> "Direct", lat1 |-> lat1, lon1 |-> lon1,
                   azi1 |-> azi1, s12 |-> s12] @@
                  (IF DirectCheck(lat1, lon1, azi1, s12) # ""
                   THEN [pc |-> 0,
                         out |-> [panic |-> DirectCheck(lat1, lon1, azi1, s12)]]
                   ELSE [pc |-> 1, recv |-> g,
                         L |-> DirectEnter(lat1, lon1, azi1, s12)])]

\* the next statement of the call
ConcStep(c) ==
    /\ ret[c].op = "Direct"
    /\ ret[c].pc \in 1..Len(DirectLines)
    /\ g' = AfterCall(g)
    /\ given' = given
    /\ ret' = [ret EXCEPT ![c].pc = @ + 1,
                          ![c].L = DirectStep(ret[c].recv, @,
                                              DirectLines[ret[c].pc])]

ConcReturn(c) ==
    /\ ret[c].op = "Direct"
    /\ ret[c].pc = Len(DirectLines) + 1
    /\ g' = AfterCall(g)
    /\ given' = given
    /\ ret' = [ret EXCEPT ![c] =
                  [op |-> "Direct", lat1 |-> @.lat1, lon1 |-> @.lon1,
                   azi1 |-> @.azi1, s12 |-> @.s12, pc |-> 0,
                   out |-> DirectReturn(@.L)]]

ConcA(c) ==
    /\ ret[c] = Idle
    /\ g' = AfterCall(g)
    /\ given' = given
    /\ ret' = [ret EXCEPT ![c] = [op |-> "A", pc |-> 0,
                              val |-> GeodesicA(g)]]

ConcF(c) ==
    /\ ret[c] = Idle
    /\ g' = AfterCall(g)
    /\ given' = given
    /\ ret' = [ret EXCEPT ![c] = [op |-> "F", pc |-> 0,
                              val |-> GeodesicF(g)]]

ConcHybrid(c) ==
    /\ ret[c].op = "Direct"
    /\ ret[c].pc = 0
    /\ ret[c].out.panic = ""
    /\ HybridOnGrid(ret[c].out.loc)
    /\ g' = AfterCall(g)
    /\ given' = given
    /\ ret' = [ret EXCEPT ![c] =
                  [op |-> "hybrid", pc |-> 0,
                   out |-> hybrid(g, @.out.loc.sinbet1, @.out.loc.cosbet1,
                              @.out.loc.sinbet2, @.out.loc.cosbet2,
                              @.out.loc.sinalp1, @.out.loc.cosalp1)]]

ConcResume(c) ==
    /\ ret[c].op # "idle"
    /\ ret[c].pc = 0
    /\ g' = g
    /\ given' = given
    /\ ret' = [ret EXCEPT ![c] = Idle]

NextConc ==
    \E c \in Callers :
        \/ \E i \in ConcInputs : ConcCall(c, i[1], i[2], i[3], Arc(g, i[4]))
        \/ ConcStep(c)
        \/ ConcReturn(c)
        \/ ConcA(c)
        \/ ConcF(c)
        \/ ConcHybrid(c)
        \/ ConcResume(c)

SpecConc == InitConc /\ [][NextConc]_vars

-----------------------------------------------------------------------------
(* Properties of Spec (C1 to C8, C10) and of SpecConc (C9) *)

\* lo <= x <= hi
Within(x, lo, hi) == VLe(lo, x) /\ VLe(x, hi)

\* C1: Direct panics if and only if an argument is outside its domain (lat1 in
\* [-90,90], lon1 in [-180,180], azi1 in [-180,180], s12 in [0,1e11] metres,
\* the bounds included); a call that panics has run no statement after the
\* checks and returns no Solution, and every other call returns a Solution.
DirectPanicsExactlyOutOfDomain ==
    ret.op = "Direct" =>
        /\ (ret.panic # "") <=> ~(/\ Within(ret.lat1, Deg(-90), Deg(90))
                                  /\ Within(ret.lon1, Deg(-180), Deg(180))
                                  /\ Within(ret.azi1, Deg(-180), Deg(180))
                                  /\ Within(ret.s12, Zero, Metres(1, 11)))
        /\ (ret.panic # "") =>
               DOMAIN ret = {"op", "lat1", "lon1", "azi1", "s12", "panic"}
        /\ (ret.panic = "") => {"sol", "loc"} \subseteq DOMAIN ret

\* a call with every argument on a bound of its domain has returned a Solution
DirectAcceptsBounds ==
    /\ ret.op = "Direct"
    /\ ret.lat1 = Deg(-90)
    /\ ret.lon1 = Deg(180)
    /\ ret.azi1 = Deg(-180)
    /\ ret.s12 = Metres(1, 11)
    /\ ret.panic = ""
    /\ "sol" \in DOMAIN ret

\* C2: NewGeodesic panics if and only if a is outside [1, 1e10] metres or f is
\* outside [0, 1/150] (the bounds included); otherwise it returns a model, and
\* A() returns exactly the a that was passed in.
NewGeodesicPanicsExactlyOutOfRange ==
    /\ ret.op = "NewGeodesic" =>
          /\ (ret.panic # "") <=> ~(/\ Within(ret.a, Metres(1, 0), Metres(1, 10))
                                    /\ Within(ret.f, Zero, Num(1, 150)))
          /\ (ret.panic = "") <=> g.made
          /\ g.made => given = [a |-> ret.a, f |-> ret.f]
    /\ ret.op = "A" => ret.val = given.a

\* A() has returned the a of a model built on the upper bounds of a and f
BuiltOnBoundsReturnsA ==
    /\ ret.op = "A"
    /\ given.a = Metres(1, 10)
    /\ given.f = Num(1, 150)
    /\ ret.val = Metres(1, 10)

\* C3 as stated: the Lon2 of every Solution lies in [-180,180].
Lon2InRange ==
    (ret.op = "Direct" /\ ret.panic = "") =>
        Within(ret.sol.Lon2, Deg(-180), Deg(180))

\* C4: the Lat2 of every Solution lies in [-90,90] and its Azi2 in [-180,180];
\* cos(beta2) >= 0.
Lat2Azi2InRange ==
    (ret.op = "Direct" /\ ret.panic = "") =>
        /\ Within(ret.sol.Lat2, Deg(-90), Deg(90))
        /\ Within(ret.sol.Azi2, Deg(-180), Deg(180))
        /\ VLe(Zero, ret.loc.cosbet2)

\* a Solution at the south pole, reached from the equator heading south
ArrivedAtSouthPole ==
    /\ ret.op = "Direct"
    /\ ret.panic = ""
    /\ ret.lat1 = Zero
    /\ ret.azi1 = Deg(180)
    /\ ret.sol.Lat2 = Deg(-90)

\* C5 as stated: an f smaller than 2^-26 is stored as 0, an f with
\* 2^-26 <= f <= 1/150 is stored as given.
FlatteningBelowTinyIsZero ==
    g.made =>
        GeodesicF(g) = IF VLt(given.f, Num(1, 67108864)) THEN Zero ELSE given.f

\* C5, amended: an f with f <= 2^-26 is stored as 0, an f with
\* 2^-26 < f <= 1/150 is stored as given; F() returns the stored f, and
\* b = a(1-f), n = f/(2-f), e2 = f(2-f), e'2 = e2/(1-f)^2 are computed from it
\* (b = a and n = e2 = e'2 = 0 when it is 0).
FlatteningUpToTinyIsZero ==
    g.made =>
        LET Derived(f) ==
                /\ GeodesicF(g) = f
                /\ ret.op = "F" => ret.val = f
                /\ g.a = given.a
                /\ g.b = VMul(given.a, VSub(One, f))
                /\ g.n = VDiv(f, VSub(Num(2, 1), f))
                /\ g.e2 = VMul(f, VSub(Num(2, 1), f))
                /\ g.ep2 = VDiv(VMul(f, VSub(Num(2, 1), f)),
                                VMul(VSub(One, f), VSub(One, f)))
                /\ IsZero(f) => /\ g.b = given.a
                                /\ IsZero(g.n) /\ IsZero(g.e2) /\ IsZero(g.ep2)
        IN  Derived(IF VLe(given.f, Num(1, 67108864)) THEN Zero ELSE given.f)

\* F() has returned 0 on a model built with f = 2^-26
TinyFlatteningReturnsZero ==
    /\ ret.op = "F"
    /\ given.f = Num(1, 67108864)
    /\ IsZero(ret.val)

\* C6: on a model built with f = 0 every Direct call has eps = 0, for which
\* A1 = A2 = A3 = 1 and the 8 coefficients of each of C1, C1', C2 and C3 are
\* 0, so that sigma2 = sigma1 + s12/a and lambda12 = omega2 - omega1.
SphereIsGreatCircle ==
    (ret.op = "Direct" /\ ret.panic = "" /\ IsZero(given.f)) =>
        /\ IsZero(ret.loc.eps)
        /\ ret.loc.A1 = One
        /\ seriesA2(ret.loc.eps) = One
        /\ ret.loc.A3 = One
        /\ \A C \in {ret.loc.C1, ret.loc.C1p, seriesC2(ret.loc.eps), ret.loc.C3} :
               Len(C) = 8 /\ \A i \in 1..8 : IsZero(C[i])
        /\ ret.loc.sig2 = VAdd(ret.loc.sig1, VDiv(ret.s12, given.a))
        /\ ret.loc.lam12 = VSub(ret.loc.omg2, ret.loc.omg1)

\* a Solution on a sphere, three quarters of the way around it from the equator
SphereThreeQuarters ==
    /\ ret.op = "Direct"
    /\ ret.panic = ""
    /\ IsZero(given.f)
    /\ ret.lat1 = Zero
    /\ ret.azi1 = Deg(90)
    /\ ret.loc.sig2 = VAdd(ret.loc.sig1, PiTimes(3, 2))

\* Meridional starts in exact arithmetic (where the sine of 180 degrees is 0,
\* which the sine of the float64 nearest to pi is not): for azi1 in {0, 180}
\* the Lon2 returned is Lon1, or Lon1 shifted by 180 degrees and wrapped into
\* [-180,180]; sin(alpha0) = 0 and omega1, omega2 are 0 or +/-pi.
MeridionalKeepsMeridian ==
    (ret.op = "Direct" /\ ret.panic = "" /\ ret.azi1 \in {Zero, Deg(180)}) =>
        LET Wrap(x) == IF VLt(Deg(180), x) THEN VSub(x, Deg(360))
                       ELSE IF VLt(x, Deg(-180)) THEN VAdd(x, Deg(360))
                       ELSE x
        IN  /\ ret.sol.Lon2 \in {ret.sol.Lon1,
                                 Wrap(VAdd(ret.sol.Lon1, Deg(180))),
                                 Wrap(VSub(ret.sol.Lon1, Deg(180)))}
            /\ IsZero(ret.loc.sinalp0)
            /\ {ret.loc.omg1, ret.loc.omg2} \subseteq
                   {Zero, PiTimes(1, 1), PiTimes(-1, 1)}

\* a Solution on the antipodal meridian, reached heading south over the pole
OverThePole ==
    /\ ret.op = "Direct"
    /\ ret.panic = ""
    /\ ret.azi1 = Deg(180)
    /\ ret.lon1 = Deg(100)
    /\ ret.sol.Lon2 = Deg(-80)

\* C8 as stated: hybrid, called on the ends of the geodesic of any Direct call,
\* returns the alpha2 and the s12 of that call.
HybridReturnsDirect ==
    ret.op = "hybrid" =>
        /\ ret.out.alp2 = ret.of.loc.alp2
        /\ ret.out.s12 = ret.of.s12

\* In exact arithmetic hybrid does return the alpha2 and the s12 of the Direct
\* call when the geodesic is not equatorial (cos(alpha0) > 0) and ends within
\* a quarter turn of its node (-pi/2 <= sigma2 <= pi/2).
HybridReturnsDirectNearNode ==
    (/\ ret.op = "hybrid"
     /\ VLt(Zero, ret.of.loc.cosalp0)
     /\ Within(ret.of.loc.sig2, PiTimes(-1, 2), PiTimes(1, 2))) =>
        /\ ret.out.alp2 = ret.of.loc.alp2
        /\ ret.out.s12 = ret.of.s12

\* hybrid has returned for a quarter turn north from the equator
HybridAfterQuarterTurn ==
    /\ ret.op = "hybrid"
    /\ ret.of.lat1 = Zero
    /\ ret.of.azi1 = Zero
    /\ ret.of.loc.sig2 = PiTimes(1, 2)
    /\ ~IsZero(ret.of.s12)
    /\ ret.out.s12 = ret.of.s12

\* C9: after construction no operation changes a field of the model; in any
\* interleaving of concurrent calls each Direct call returns what it returns
\* when run alone, and calls with equal arguments return equal Solutions.
ModelFixedCallsIndependent ==
    /\ [][g' = g]_vars
    /\ [](g = MakeGeodesic(given.a, KeptF(given.f)))
    /\ [](\A c \in Callers :
             (ret[c].op = "Direct" /\ ret[c].pc = 0) =>
                 ret[c].out = Direct(g, ret[c].lat1, ret[c].lon1,
                                     ret[c].azi1, ret[c].s12))
    /\ [](\A c, d \in Callers :
             (/\ ret[c].op = "Direct" /\ ret[c].pc = 0
              /\ ret[d].op = "Direct" /\ ret[d].pc = 0
              /\ <<ret[c].lat1, ret[c].lon1, ret[c].azi1, ret[c].s12>> =
                 <<ret[d].lat1, ret[d].lon1, ret[d].azi1, ret[d].s12>>) =>
                 ret[c].out = ret[d].out)

\* one call has returned a Solution while another is between two statements
ReturnedWhileOtherRuns ==
    \E c, d \in Callers :
        /\ ret[c].op = "Direct" /\ ret[c].pc = 0 /\ ret[c].out.panic = ""
        /\ ret[d].op = "Direct" /\ ret[d].pc \in 2..Len(DirectLines)

\* C10 as stated: a lat1 with |lat1| > 90(1 - 2^-38) is accepted and used as
\* 90(1 - 2^-38) with its sign, any other lat1 is used unchanged; the Solution
\* has Lon1 = lon1, Azi1 = azi1, S12 = s12 and Lat1 = lat1.
ClampedAndEchoed ==
    (ret.op = "Direct" /\ ret.panic = "") =>
        /\ ret.loc.lat1 = IF VLt(VMul(Deg(90), VSub(One, Eta)), VAbs(ret.lat1))
                          THEN Copysign(VMul(Deg(90), VSub(One, Eta)), ret.lat1)
                          ELSE ret.lat1
        /\ ret.sol.Lon1 = ret.lon1
        /\ ret.sol.Azi1 = ret.azi1
        /\ ret.sol.S12 = ret.s12
        /\ ret.sol.Lat1 = ret.lat1

=============================================================================
